---- MODULE Spec2Model ----
(***************************************************************************)
(* Model of bout.py: bank statement rows extracted from a pdf are cleaned  *)
(* (clean), mapped per profile to a transaction (get_icici, get_icicicc)   *)
(* and written in QIF format (qif_header, to_qif) by the command start.    *)
(*                                                                         *)
(* A Python str is modelled as a sequence of one-character strings, so     *)
(* that formatting, splitting, suffix tests and date parsing are computed  *)
(* character by character.                                                 *)
(***************************************************************************)
EXTENDS Integers, Sequences, FiniteSets, TLC

VARIABLES
    profile,        \* --profile option of start
    df,             \* what tabula.read_pdf returns: the sequence of raw rows
    pc,             \* position of start: "start", "loop", "done", "error"
    ri,             \* 1-based index of the next raw row map(clean, df) hands out
    pending,        \* clean rows of the current raw row the chain has not yielded
    out,            \* the strings passed to click.echo so far, in order
    print_header,   \* local flag of start
    err,            \* the exception that ended the run, "none" otherwise
    consumed,       \* clean rows for which create_transaction has returned
    raw,            \* argument of a single call of clean
    cleaned,        \* outcome of that call
    crow,           \* argument of a single call of a profile's mapper
    mapped          \* outcome of that call

vars == <<profile, df, pc, ri, pending, out, print_header, err, consumed,
          raw, cleaned, crow, mapped>>

pipelineVars == <<profile, df, pc, ri, pending, out, print_header, err, consumed>>
cleanVars == <<raw, cleaned>>
mapVars == <<crow, mapped>>

(***************************************************************************)
(* Bounds of the model.                                                    *)
(***************************************************************************)
MaxRows == 2        \* raw rows in a document
MaxLines == 2       \* physical lines of a raw row given to clean
MaxCells == 2       \* cells of a physical line given to clean
MaxMemoCols == 1    \* extra description columns of an icici row

(***************************************************************************)
(* Python str operations.                                                  *)
(***************************************************************************)
Digits == {"0", "1", "2", "3", "4", "5", "6", "7", "8", "9"}

DigitVal(c) ==
    CASE c = "0" -> 0 [] c = "1" -> 1 [] c = "2" -> 2 [] c = "3" -> 3
      [] c = "4" -> 4 [] c = "5" -> 5 [] c = "6" -> 6 [] c = "7" -> 7
      [] c = "8" -> 8 [] c = "9" -> 9

\* s.endswith(suffix)
EndsWith(s, suffix) ==
    /\ Len(s) >= Len(suffix)
    /\ SubSeq(s, Len(s) - Len(suffix) + 1, Len(s)) = suffix

\* positions of the character sep in s
SepPositions(s, sep) == {i \in 1..Len(s) : s[i] = sep}

\* s.split(sep)[0]: the text before the first occurrence of sep, all of s
\* when sep does not occur
SplitFirst(s, sep) ==
    IF SepPositions(s, sep) = {} THEN s
    ELSE LET p == CHOOSE i \in SepPositions(s, sep) :
                      \A j \in SepPositions(s, sep) : i <= j
         IN  SubSeq(s, 1, p - 1)

\* sep.join(parts) for a one-character separator
RECURSIVE Join(_, _)
Join(parts, sep) ==
    IF parts = <<>> THEN <<>>
    ELSE IF Len(parts) = 1 THEN parts[1]
    ELSE parts[1] \o <<sep>> \o Join(Tail(parts), sep)

\* row[lo:hi] with 0-based bounds 0 <= lo, as Python slices a list
Slice(row, lo, hi) ==
    LET h == IF hi > Len(row) THEN Len(row) ELSE hi
    IN  IF h <= lo THEN <<>> ELSE SubSeq(row, lo + 1, h)

(***************************************************************************)
(* _valid_date: datetime.strptime(date_value, "%d/%m/%Y") succeeds.        *)
(* strptime matches (3[0-1]|[1-2]\d|0[1-9]|[1-9]| [1-9]) "/"               *)
(* (1[0-2]|0[1-9]|[1-9]) "/" \d\d\d\d against the whole string and then    *)
(* builds the date, which fails for year 0 and for a day the month lacks.  *)
(***************************************************************************)
DayText(d) ==
    \/ /\ Len(d) = 2
       /\ \/ d[1] = "3" /\ d[2] \in {"0", "1"}
          \/ d[1] \in {"1", "2"} /\ d[2] \in Digits
          \/ d[1] = "0" /\ d[2] \in Digits \ {"0"}
          \/ d[1] = " " /\ d[2] \in Digits \ {"0"}
    \/ Len(d) = 1 /\ d[1] \in Digits \ {"0"}

MonthText(m) ==
    \/ /\ Len(m) = 2
       /\ \/ m[1] = "1" /\ m[2] \in {"0", "1", "2"}
          \/ m[1] = "0" /\ m[2] \in Digits \ {"0"}
    \/ Len(m) = 1 /\ m[1] \in Digits \ {"0"}

YearText(y) == Len(y) = 4 /\ \A i \in 1..4 : y[i] \in Digits

\* int() of a text of digits, a leading blank allowed
RECURSIVE ToInt(_)
ToInt(s) ==
    IF s = <<>> THEN 0
    ELSE IF s[1] = " " THEN ToInt(Tail(s))
    ELSE ToInt(SubSeq(s, 1, Len(s) - 1)) * 10 + DigitVal(s[Len(s)])

IsLeap(y) == (y % 4 = 0) /\ ((y % 100 # 0) \/ (y % 400 = 0))

DaysInMonth(y, m) ==
    IF m = 2 THEN (IF IsLeap(y) THEN 29 ELSE 28)
    ELSE IF m \in {4, 6, 9, 11} THEN 30 ELSE 31

_valid_date(date_value) ==
    LET sl == SepPositions(date_value, "/")
    IN  /\ Cardinality(sl) = 2
        /\ LET p1 == CHOOSE i \in sl : \A j \in sl : i <= j
               p2 == CHOOSE i \in sl : \A j \in sl : j <= i
               d == SubSeq(date_value, 1, p1 - 1)
               m == SubSeq(date_value, p1 + 1, p2 - 1)
               y == SubSeq(date_value, p2 + 1, Len(date_value))
           IN  /\ DayText(d)
               /\ MonthText(m)
               /\ YearText(y)
               /\ ToInt(y) >= 1
               /\ ToInt(d) <= DaysInMonth(ToInt(y), ToInt(m))

(***************************************************************************)
(* clean and its helpers.  A raw row is a record                           *)
(* [extraction_method, width, data]; data is a sequence of physical lines, *)
(* a line a sequence of cells [width, text].  The outcome of a call is     *)
(* [kind, rows]: kind "ok" with the list returned, or the exception raised.*)
(***************************************************************************)
Raised(exception) == [kind |-> exception, rows |-> <<>>]
Returned(rows) == [kind |-> "ok", rows |-> rows]
\* the function falls off its end: the value is None
ReturnedNone == [kind |-> "None", rows |-> <<>>]

\* _filter_zero_data(data) is None
_filter_zero_data_is_none_inverted(data) == ~(data.width = 0 /\ Len(data.data) = 0)
_filter_zero_data_is_none(data) == data.width = 0 /\ Len(data.data) = 0

\* [[d['text'] for d in l] for l in row['data']]
Lines(row) ==
    [l \in 1..Len(row.data) |-> [c \in 1..Len(row.data[l]) |-> row.data[l][c].text]]

\* merge_dict(d1, d2): d2[i] raises IndexError when d2 is shorter than d1
merge_dict(d1, d2) ==
    IF Len(d2) < Len(d1) THEN Raised("IndexError")
    ELSE Returned([i \in 1..Len(d1) |-> d1[i] \o d2[i]])

\* reduce(merge_dict, lines) continued from the accumulator acc at line i
RECURSIVE ReduceFrom(_, _, _)
ReduceFrom(acc, lines, i) ==
    IF i > Len(lines) THEN Returned(acc)
    ELSE LET m == merge_dict(acc, lines[i])
         IN  IF m.kind # "ok" THEN m ELSE ReduceFrom(m.rows, lines, i + 1)

\* reduce(merge_dict, lines): TypeError on an empty sequence (no initial value)
Reduce(lines) ==
    IF lines = <<>> THEN Raised("TypeError")
    ELSE ReduceFrom(lines[1], lines, 2)

\* [v for v in merged_line if v]
RECURSIVE NonEmpty(_)
NonEmpty(line) ==
    IF line = <<>> THEN <<>>
    ELSE IF line[1] = <<>> THEN NonEmpty(Tail(line))
    ELSE <<line[1]>> \o NonEmpty(Tail(line))

clean_lattice_merged(row) ==
    IF _filter_zero_data_is_none(row) THEN Returned(<<>>)
    ELSE LET merged_line == Reduce(Lines(row))
         IN  IF merged_line.kind # "ok" THEN merged_line
             ELSE Returned(<<NonEmpty(merged_line.rows)>>)

clean(row) ==
    IF _filter_zero_data_is_none(row) THEN Returned(<<>>)
    ELSE IF row.extraction_method = "lattice" THEN Returned(Lines(row))
    ELSE IF row.extraction_method = "stream" THEN
         LET merged_line == Reduce(Lines(row))
         IN  IF merged_line.kind # "ok" THEN merged_line
             ELSE Returned(<<NonEmpty(merged_line.rows)>>)
    ELSE ReturnedNone

(***************************************************************************)
(* The profiles' mappers.  The outcome of a call is a record               *)
(* [kind, date, payee, memo, amount]: kind "Transaction" or                *)
(* "InvalidTransaction" for the tuple returned, or the exception raised.   *)
(***************************************************************************)
Transaction(date, payee, memo, amount) ==
    [kind |-> "Transaction", date |-> date, payee |-> payee, memo |-> memo,
     amount |-> amount]
InvalidTransaction ==
    [kind |-> "InvalidTransaction", date |-> <<>>, payee |-> <<>>, memo |-> <<>>,
     amount |-> <<>>]
RaisedInMapper(exception) ==
    [kind |-> exception, date |-> <<>>, payee |-> <<>>, memo |-> <<>>,
     amount |-> <<>>]

ZeroAmount == <<"0", ".", "0">>
CreditMarker == <<" ", "C", "R">>

\* data_row[-k] of a row that has at least k fields
FromEnd(data_row, k) == data_row[Len(data_row) - k + 1]

get_icici_tests_withdrawal(data_row) ==
    IF Len(data_row) < 3 THEN RaisedInMapper("IndexError")
    ELSE IF _valid_date(data_row[3]) THEN
        Transaction(data_row[3], <<>>,
                    Join(Slice(data_row, 4, Len(data_row) - 3), " "),
                    IF FromEnd(data_row, 3) # ZeroAmount /\ FromEnd(data_row, 3) # <<>>
                    THEN <<"-">> \o FromEnd(data_row, 3)
                    ELSE FromEnd(data_row, 2))
    ELSE InvalidTransaction

get_icici(data_row) ==
    IF Len(data_row) < 3 THEN RaisedInMapper("IndexError")
    ELSE IF _valid_date(data_row[3]) THEN
        Transaction(data_row[3], <<>>,
                    Join(Slice(data_row, 4, Len(data_row) - 3), " "),
                    IF FromEnd(data_row, 2) # ZeroAmount
                    THEN FromEnd(data_row, 2)
                    ELSE <<"-">> \o FromEnd(data_row, 3))
    ELSE InvalidTransaction

get_icicicc(data_row) ==
    IF Len(data_row) < 1 THEN RaisedInMapper("IndexError")
    ELSE IF _valid_date(data_row[1]) THEN
        IF Len(data_row) < 7 THEN RaisedInMapper("IndexError")
        ELSE Transaction(data_row[1], <<>>, data_row[3],
                         IF EndsWith(<<"-">> \o data_row[7], CreditMarker)
                         THEN SplitFirst(data_row[7], " ")
                         ELSE <<"-">> \o data_row[7])
    ELSE InvalidTransaction

\* profiles[profile](r)
create_transaction(p, r) == IF p = "icici" THEN get_icici(r) ELSE get_icicicc(r)

(***************************************************************************)
(* The formatter.  click.echo writes its message and a newline.            *)
(***************************************************************************)
echo(message) == message \o <<"\n">>

QifHeaderText ==
    <<"!", "A", "c", "c", "o", "u", "n", "t", "\n",
      "N", "M", "y", "A", "c", "c", "o", "u", "n", "t", "\n",
      "T", "M", "y", "B", "a", "n", "k", "\n",
      "^", "\n",
      "!", "T", "y", "p", "e", ":", "B", "a", "n", "k">>

to_qif(transaction) ==
    <<"D">> \o transaction.date \o <<"\n", "M">> \o transaction.memo
        \o <<"\n", "T">> \o transaction.amount \o <<"\n", "^", "\n", "\n">>

(***************************************************************************)
(* Inputs.                                                                 *)
(***************************************************************************)
\* texts met in a date column: "10/07/2017", "14/07/2017", "1/7/2017", " 1/07/2017", "29/02/2016", "29/02/2017", "31/04/2017", "10/13/2017", "10/07/17", "10-07-2017", "10/07/0000", "10/07/2017 ", "invalid_date", ""
DateTexts ==
    { <<"1", "0", "/", "0", "7", "/", "2", "0", "1", "7">>,
      <<"1", "4", "/", "0", "7", "/", "2", "0", "1", "7">>,
      <<"1", "/", "7", "/", "2", "0", "1", "7">>,
      <<" ", "1", "/", "0", "7", "/", "2", "0", "1", "7">>,
      <<"2", "9", "/", "0", "2", "/", "2", "0", "1", "6">>,
      <<"2", "9", "/", "0", "2", "/", "2", "0", "1", "7">>,
      <<"3", "1", "/", "0", "4", "/", "2", "0", "1", "7">>,
      <<"1", "0", "/", "1", "3", "/", "2", "0", "1", "7">>,
      <<"1", "0", "/", "0", "7", "/", "1", "7">>,
      <<"1", "0", "-", "0", "7", "-", "2", "0", "1", "7">>,
      <<"1", "0", "/", "0", "7", "/", "0", "0", "0", "0">>,
      <<"1", "0", "/", "0", "7", "/", "2", "0", "1", "7", " ">>,
      <<"i", "n", "v", "a", "l", "i", "d", "_", "d", "a", "t", "e">>,
      <<>> }

\* texts met in the withdrawal and deposit columns of an icici row
AmountTexts ==
    { <<"0", ".", "0">>,
      <<"2", "0", "0", "0", "0", ".", "0">>,
      <<"1", "5", "0", ".", "0">>,
      <<>> }

\* texts met in the amount column of an icicicc row
CardAmountTexts ==
    { <<"2", "0", ",", "7", "2", "4", ".", "0", "6">>,
      <<"2", "0", ",", "7", "2", "4", ".", "0", "6", " ", "C", "R">>,
      <<"1", " ", "0", "0", "0", " ", "C", "R">>,
      <<" ", "5", " ", "C", "R">>,
      <<"5", " ", " ", "C", "R">>,
      <<" ", "C", "R">>,
      <<"C", "R">>,
      <<"7", " ", "C", "R", "X">>,
      <<>> }

\* texts met in a description column
MemoTexts ==
    { <<"S", "o", "m", "e">>,
      <<"/", "2", "0", "1", "7", "/", "0">> }

\* all sequences over S of length 0..n
SeqsUpTo(S, n) == UNION {[1..k -> S] : k \in 0..n}

\* the prefixes of the rows of a set
Prefixes(rows) == {SubSeq(r, 1, n) : r \in rows, n \in 0..7}

\* icici account rows as in test_bout.py icici_data_row: serial number, value
\* date, transaction date, cheque number, description columns, withdrawal,
\* deposit, balance
IciciRows ==
    { <<<<"5">>, <<"0", "8", "/", "0", "7", "/", "2", "0", "1", "7">>, date, <<"-">>>> \o memo \o <<debit, credit, <<"2", "7", "2", "9", "6", ".", "6", "9">>>> :
        date \in DateTexts, memo \in SeqsUpTo(MemoTexts, MaxMemoCols),
        debit \in AmountTexts, credit \in AmountTexts }

\* icicicc card rows as in test_bout.py icicicc_data_row: date, reference,
\* description, points, two empty cells, amount
IcicicRows ==
    { <<date, <<"7", "4", "1", "4">>, memo, <<"4", "1", "4">>, <<>>, <<>>, amount>> :
        date \in DateTexts, memo \in MemoTexts, amount \in CardAmountTexts }

\* rows shorter than a profile's columns
ShortRows == SeqsUpTo({<<"1", "0", "/", "0", "7", "/", "2", "0", "1", "7">>, <<"0", ".", "0">>, <<"x">>}, 3) \cup Prefixes(IcicicRows)

CleanRowInputs == IciciRows \cup IcicicRows \cup ShortRows

\* cells of a physical line: a zero-width placeholder and two texts
CellInputs ==
    { [width |-> 0, text |-> <<>>],
      [width |-> 6, text |-> <<"a">>],
      [width |-> 6, text |-> <<"b">>] }

LineInputs == SeqsUpTo(CellInputs, MaxCells)

RawRowInputs ==
    [extraction_method : {"stream", "lattice", "other"},
     width : {0, 939},
     data : SeqsUpTo(LineInputs, MaxLines)]

\* a cell as test_bout.py _get_cell builds it, a placeholder for an empty text
Cell(text) == [width |-> IF text = <<>> THEN 0 ELSE 6, text |-> text]

\* a raw row of the given extraction method holding the given lines of texts
RawRow(method, lines) ==
    [extraction_method |-> method, width |-> 939,
     data |-> [l \in 1..Len(lines) |-> [c \in 1..Len(lines[l]) |-> Cell(lines[l][c])]]]

IciciWithdrawal ==
    <<<<"5">>,
       <<"0", "8", "/", "0", "7", "/", "2", "0", "1", "7">>,
       <<"1", "0", "/", "0", "7", "/", "2", "0", "1", "7">>,
       <<"-">>,
       <<"S", "o", "m", "e">>,
       <<"2", "0", "0", "0", "0", ".", "0">>,
       <<"0", ".", "0">>,
       <<"2", "7", "2", "9", "6", ".", "6", "9">>>>
IciciDeposit ==
    <<<<"6">>,
       <<"0", "9", "/", "0", "7", "/", "2", "0", "1", "7">>,
       <<"1", "1", "/", "0", "7", "/", "2", "0", "1", "7">>,
       <<"-">>,
       <<"S", "o", "m", "e">>,
       <<"0", ".", "0">>,
       <<"1", "5", "0", ".", "0">>,
       <<"2", "7", "4", "4", "6", ".", "6", "9">>>>
IciciHeading ==
    <<<<"N", "o">>,
       <<"V", "a", "l", "u", "e">>,
       <<"D", "a", "t", "e">>,
       <<"C", "h", "q">>,
       <<"M", "e", "m", "o">>,
       <<"D", "r">>,
       <<"C", "r">>,
       <<"B", "a", "l">>>>
IciciContinuation ==
    <<<<>>,
       <<>>,
       <<>>,
       <<>>,
       <<"/", "2", "0", "1", "7", "/", "0">>,
       <<>>,
       <<>>,
       <<>>>>
CardDebit ==
    <<<<"1", "4", "/", "0", "7", "/", "2", "0", "1", "7">>,
       <<"7", "4", "1", "4">>,
       <<"S", "o", "m", "e">>,
       <<"4", "1", "4">>,
       <<>>,
       <<>>,
       <<"2", "0", ",", "7", "2", "4", ".", "0", "6">>>>
CardCredit ==
    <<<<"1", "5", "/", "0", "7", "/", "2", "0", "1", "7">>,
       <<"7", "4", "1", "5">>,
       <<"S", "o", "m", "e">>,
       <<"0">>,
       <<>>,
       <<>>,
       <<"2", "0", ",", "7", "2", "4", ".", "0", "6", " ", "C", "R">>>>
CardHeading ==
    <<<<"i", "n", "v", "a", "l", "i", "d", "_", "d", "a", "t", "e">>,
       <<"7", "4", "1", "4">>,
       <<"S", "o", "m", "e">>,
       <<"4", "1", "4">>,
       <<>>,
       <<>>,
       <<"2", "0", ",", "7", "2", "4", ".", "0", "6">>>>

\* the raw rows a document is made of
DocRows ==
    { RawRow("stream", <<IciciWithdrawal>>),
      RawRow("stream", <<IciciDeposit>>),
      RawRow("stream", <<IciciHeading>>),
      RawRow("stream", <<IciciWithdrawal, IciciContinuation>>),
      RawRow("stream", <<SubSeq(IciciHeading, 1, 2)>>),
      RawRow("stream", <<SubSeq(IciciDeposit, 1, 2), SubSeq(IciciDeposit, 1, 1)>>),
      [extraction_method |-> "stream", width |-> 0, data |-> <<>>],
      [extraction_method |-> "stream", width |-> 939, data |-> <<>>],
      RawRow("lattice", <<CardDebit>>),
      RawRow("lattice", <<CardCredit>>),
      RawRow("lattice", <<CardHeading, CardDebit>>),
      RawRow("lattice", <<SubSeq(CardDebit, 1, 3)>>) }

Profiles == {"icici", "icicicc"}

NotCalledClean == [kind |-> "not called", rows |-> <<>>]
NotCalledMapper == RaisedInMapper("not called")

(***************************************************************************)
(* start: the pipeline over one document.                                  *)
(***************************************************************************)
Init ==
    /\ profile \in Profiles
    /\ df \in SeqsUpTo(DocRows, MaxRows)
    /\ pc = "start"
    /\ ri = 1
    /\ pending = <<>>
    /\ out = <<>>
    /\ print_header = FALSE
    /\ err = "none"
    /\ consumed = <<>>
    /\ raw = [extraction_method |-> "stream", width |-> 0, data |-> <<>>]
    /\ cleaned = NotCalledClean
    /\ crow = <<>>
    /\ mapped = NotCalledMapper

\* tabula.read_pdf returns the rows of the document
ReadPdf ==
    /\ pc = "start"
    /\ pc' = "loop"
    /\ UNCHANGED <<profile, df, ri, pending, out, print_header, err, consumed>>
    /\ UNCHANGED <<cleanVars, mapVars>>

\* tabula.read_pdf raises: unreadable document or wrong password
ReadPdfFails ==
    /\ pc = "start"
    /\ pc' = "error"
    /\ err' = "ReadError"
    /\ UNCHANGED <<profile, df, ri, pending, out, print_header, consumed>>
    /\ UNCHANGED <<cleanVars, mapVars>>

\* the chain has yielded every clean row of the current raw row and asks
\* map(clean, df) for the next one; iterating None raises TypeError
NextRawRow ==
    /\ pc = "loop"
    /\ pending = <<>>
    /\ ri <= Len(df)
    /\ LET c == clean(df[ri])
       IN  IF c.kind = "ok"
           THEN /\ pending' = c.rows
                /\ ri' = ri + 1
                /\ UNCHANGED <<pc, err>>
           ELSE /\ pc' = "error"
                /\ err' = IF c.kind = "None" THEN "TypeError" ELSE c.kind
                /\ UNCHANGED <<pending, ri>>
    /\ UNCHANGED <<profile, df, out, print_header, consumed>>
    /\ UNCHANGED <<cleanVars, mapVars>>

\* the header is echoed for every transaction
EchoTransactionHeaderAlways(o, ph, transaction) ==
    o \o <<echo(QifHeaderText)>> \o <<echo(to_qif(transaction))>>

\* the transaction is echoed inside the header branch only
EchoTransactionFirstOnly(o, ph, transaction) ==
    IF ~ph THEN o \o <<echo(QifHeaderText)>> \o <<echo(to_qif(transaction))>>
    ELSE o

\* what the output is after the body of the loop for a valid transaction
EchoTransaction(o, ph, transaction) ==
    o \o (IF ~ph THEN <<echo(QifHeaderText)>> ELSE <<>>)
      \o <<echo(to_qif(transaction))>>

\* one iteration of the loop over the clean rows
MapRow ==
    /\ pc = "loop"
    /\ pending # <<>>
    /\ LET r == Head(pending)
           transaction == create_transaction(profile, r)
       IN  IF transaction.kind = "Transaction"
           THEN /\ out' = EchoTransaction(out, print_header, transaction)
                /\ print_header' = TRUE
                /\ pending' = Tail(pending)
                /\ consumed' = Append(consumed, r)
                /\ UNCHANGED <<pc, err>>
           ELSE IF transaction.kind = "InvalidTransaction"
           THEN /\ pending' = Tail(pending)
                /\ consumed' = Append(consumed, r)
                /\ UNCHANGED <<out, print_header, pc, err>>
           ELSE /\ pc' = "error"
                /\ err' = transaction.kind
                /\ UNCHANGED <<out, print_header, pending, consumed>>
    /\ UNCHANGED <<profile, df, ri>>
    /\ UNCHANGED <<cleanVars, mapVars>>

\* the chain is exhausted: start returns, exit code 0
Finish ==
    /\ pc = "loop"
    /\ pending = <<>>
    /\ ri > Len(df)
    /\ pc' = "done"
    /\ UNCHANGED <<profile, df, ri, pending, out, print_header, err, consumed>>
    /\ UNCHANGED <<cleanVars, mapVars>>

Next == ReadPdf \/ ReadPdfFails \/ NextRawRow \/ MapRow \/ Finish

Spec == Init /\ [][Next]_vars

(***************************************************************************)
(* clean applied to one raw row.                                           *)
(***************************************************************************)
InitClean ==
    /\ raw \in RawRowInputs
    /\ cleaned = NotCalledClean
    /\ crow = <<>>
    /\ mapped = NotCalledMapper
    /\ profile = "icici"
    /\ df = <<>>
    /\ pc = "idle"
    /\ ri = 1
    /\ pending = <<>>
    /\ out = <<>>
    /\ print_header = FALSE
    /\ err = "none"
    /\ consumed = <<>>

CallClean ==
    /\ cleaned = NotCalledClean
    /\ cleaned' = clean(raw)
    /\ UNCHANGED <<raw, mapVars, pipelineVars>>

NextClean == CallClean

SpecClean == InitClean /\ [][NextClean]_vars

(***************************************************************************)
(* A profile's mapper applied to one clean row.                            *)
(***************************************************************************)
InitMap ==
    /\ profile \in Profiles
    /\ crow \in CleanRowInputs
    /\ mapped = NotCalledMapper
    /\ raw = [extraction_method |-> "stream", width |-> 0, data |-> <<>>]
    /\ cleaned = NotCalledClean
    /\ df = <<>>
    /\ pc = "idle"
    /\ ri = 1
    /\ pending = <<>>
    /\ out = <<>>
    /\ print_header = FALSE
    /\ err = "none"
    /\ consumed = <<>>

CallMapper ==
    /\ mapped = NotCalledMapper
    /\ mapped' = create_transaction(profile, crow)
    /\ UNCHANGED <<crow, cleanVars, pipelineVars>>

NextMap == CallMapper

SpecMap == InitMap /\ [][NextMap]_vars

(***************************************************************************)
(* Properties.                                                             *)
(***************************************************************************)
HeaderEcho == echo(QifHeaderText)
IsBlock(s) == s # HeaderEcho
HeaderPositions == {i \in 1..Len(out) : out[i] = HeaderEcho}
ValidConsumed ==
    {i \in 1..Len(consumed) :
        create_transaction(profile, consumed[i]).kind = "Transaction"}

\* the blocks of the valid transactions among rows, in the order of rows
RECURSIVE ExpectedBlocks(_)
ExpectedBlocks(rows) ==
    IF rows = <<>> THEN <<>>
    ELSE LET t == create_transaction(profile, rows[1])
         IN  (IF t.kind = "Transaction" THEN <<echo(to_qif(t))>> ELSE <<>>)
                 \o ExpectedBlocks(Tail(rows))

\* the clean rows of the first n raw rows of the document, in order
RECURSIVE CleanRowsThrough(_)
CleanRowsThrough(n) ==
    IF n = 0 THEN <<>> ELSE CleanRowsThrough(n - 1) \o clean(df[n]).rows

\* C1: the header is written exactly once, first in the output and so before
\* the first transaction block, as soon as a row has mapped to a valid
\* Transaction; while every mapped row is an InvalidTransaction the output
\* holds no header and no block; a finished run has mapped every clean row of
\* the document.
C1_HeaderOnceBeforeFirstBlock ==
    /\ ValidConsumed # {} =>
           /\ HeaderPositions = {1}
           /\ Len(out) = 1 + Cardinality(ValidConsumed)
    /\ ValidConsumed = {} => out = <<>>
    /\ print_header <=> ValidConsumed # {}
    /\ pc = "done" => consumed = CleanRowsThrough(Len(df))

\* C1 witness: a finished run whose first mapped row was invalid and which
\* then wrote the header and two blocks.
C1_Witness ==
    /\ pc = "done"
    /\ Len(consumed) >= 3
    /\ 1 \notin ValidConsumed
    /\ Len(out) = 3
    /\ out[1] = HeaderEcho

\* C2: no run ends with an exception raised while a row is cleaned or mapped.
C2_RowInvalidityNeverAborts == ~(pc = "error" /\ err \in {"IndexError", "TypeError"})

\* C6: when a run ends with an error, nothing has been written.
C6_NoOutputBeforeFatalError == pc = "error" => out = <<>>

\* C8: the blocks written are the blocks of the valid transactions among the
\* rows mapped so far, one each and in their order; the rows mapped and those
\* waiting are the clean rows of the raw rows taken so far, in source order,
\* each once; a finished run has mapped them all.
C8_BlocksInSourceOrder ==
    /\ SelectSeq(out, IsBlock) = ExpectedBlocks(consumed)
    /\ consumed \o pending = CleanRowsThrough(ri - 1)
    /\ pc = "done" => pending = <<>> /\ ri = Len(df) + 1

\* C8 witness: a finished run that mapped three clean rows, dropped one and
\* wrote two different blocks.
C8_Witness ==
    /\ pc = "done"
    /\ Len(consumed) = 3
    /\ Cardinality(ValidConsumed) = 2
    /\ Len(out) = 3
    /\ out[2] # out[3]

CleanCalled == cleaned # NotCalledClean
Malformed == raw.width = 0 /\ Len(raw.data) = 0

C10_ZeroRowDropped ==
    (CleanCalled /\ Malformed) => (cleaned.kind = "ok" /\ cleaned.rows = <<>>)

\* C10 witness: a stream row of width 0.0 without data has been cleaned.
C10_Witness ==
    /\ CleanCalled
    /\ Malformed
    /\ raw.extraction_method = "stream"
    /\ cleaned.rows = <<>>

\* the text of column n over the lines, in line order
RECURSIVE ColumnText(_, _)
ColumnText(lines, n) ==
    IF lines = <<>> THEN <<>>
    ELSE (IF n <= Len(lines[1]) THEN lines[1][n].text ELSE <<>>)
             \o ColumnText(Tail(lines), n)

\* the number of columns of the widest line
RECURSIVE Columns(_)
Columns(lines) ==
    IF lines = <<>> THEN 0
    ELSE LET rest == Columns(Tail(lines))
         IN  IF Len(lines[1]) > rest THEN Len(lines[1]) ELSE rest

\* C7: clean of a stream row that is not malformed returns exactly one clean
\* row: the texts of the columns, each concatenated over all lines in line
\* order, the empty ones left out, for any number of lines of any lengths.
C7_StreamMergesEveryColumn ==
    (CleanCalled /\ raw.extraction_method = "stream" /\ ~Malformed) =>
        /\ cleaned.kind = "ok"
        /\ cleaned.rows =
               <<NonEmpty([n \in 1..Columns(raw.data) |-> ColumnText(raw.data, n)])>>

MapperCalled == mapped # NotCalledMapper

\* C3 as stated: for icici the amount is the negated withdrawal when the
\* withdrawal is neither empty nor "0.0", and the deposit otherwise.
C3_AmountDecidedByWithdrawal ==
    (MapperCalled /\ profile = "icici" /\ Len(crow) >= 3 /\ _valid_date(crow[3])) =>
        /\ mapped.kind = "Transaction"
        /\ mapped.amount =
               IF crow[Len(crow) - 2] # <<>> /\ crow[Len(crow) - 2] # <<"0", ".", "0">>
               THEN <<"-">> \o crow[Len(crow) - 2]
               ELSE crow[Len(crow) - 1]

\* C3 amended: for icici the amount is the deposit, unchanged, when the
\* deposit is not "0.0", and the withdrawal with a '-' prefix otherwise.
C3_AmountDecidedByDeposit ==
    (MapperCalled /\ profile = "icici" /\ Len(crow) >= 3 /\ _valid_date(crow[3])) =>
        /\ mapped.kind = "Transaction"
        /\ mapped.amount =
               IF crow[Len(crow) - 1] # <<"0", ".", "0">>
               THEN crow[Len(crow) - 1]
               ELSE <<"-">> \o crow[Len(crow) - 2]

\* C3 witness: an icici row with a valid date whose withdrawal and deposit
\* both differ from "0.0" has been mapped to its deposit.
C3_Witness ==
    /\ MapperCalled
    /\ profile = "icici"
    /\ Len(crow) >= 7
    /\ mapped.kind = "Transaction"
    /\ crow[Len(crow) - 2] \notin {<<>>, <<"0", ".", "0">>}
    /\ crow[Len(crow) - 1] \notin {<<>>, <<"0", ".", "0">>}
    /\ mapped.amount = crow[Len(crow) - 1]

\* C4: for icicicc the amount of a row with a valid date is the amount field
\* without its trailing " CR" when it ends with " CR", and '-' followed by the
\* field otherwise.
C4_CreditMarkerStripped ==
    (MapperCalled /\ profile = "icicicc" /\ Len(crow) >= 7 /\ _valid_date(crow[1])) =>
        /\ mapped.kind = "Transaction"
        /\ mapped.amount =
               IF /\ Len(crow[7]) >= 3
                  /\ SubSeq(crow[7], Len(crow[7]) - 2, Len(crow[7])) = <<" ", "C", "R">>
               THEN SubSeq(crow[7], 1, Len(crow[7]) - 3)
               ELSE <<"-">> \o crow[7]

\* C5: the mapper returns a Transaction when the date field of the row (index
\* 2 for icici, index 0 for icicicc) parses, and InvalidTransaction when it
\* does not.
C5_TransactionIffDateParses ==
    LET at == IF profile = "icici" THEN 3 ELSE 1
    IN  (MapperCalled /\ Len(crow) >= at) =>
            mapped.kind = IF _valid_date(crow[at]) THEN "Transaction"
                          ELSE "InvalidTransaction"

====
